---- MODULE Spec2Model ----
(***************************************************************************)
(* Score checker (api/check.py, api/index.py): check_files validates the   *)
(* output text with read_and_verify_output, then parses the input text     *)
(* with read_input_file, then scores the arrangement with                  *)
(* compute_global_score.                                                   *)
(*                                                                         *)
(* A text is read as lines = content.strip().split('\n'); a line is read   *)
(* as line.strip().split(), a sequence of tokens (<<>> is a blank line).   *)
(* Each parser reads every line once, in order, so the model draws         *)
(* lines[i] when the loop reaches index i.  Line numbers count within      *)
(* `lines`, as in the code.                                                *)
(* A frame (a, None) is the sequence <<a>>, a frame (a, b) is <<a, b>>.     *)
(***************************************************************************)
EXTENDS Integers, Sequences, FiniteSets, TLC

\* ------------------------------------------------------------------ bounds
\* most lines of `lines` (count line included) in the output text
MaxOutLines == 3
\* most lines of `lines` (count line included) in the input text
MaxInLines == 3
\* most tokens on one line of the output text
MaxOutParts == 3
\* most tag tokens on one line of the input text
MaxTagTokens == 2
\* most frames of an arrangement handed to compute_global_score directly
MaxScoreFrames == 3
\* most lines of `lines` (count line included) in an output text that is
\* fixed at the start
MaxRoundLines == 4

\* ------------------------------------------------------- token universes
OutTokens == {"0", "1", "01", "2", "x"}
CountTokens == {"0", "1", "2", "-1", "x"}

SeqsUpTo(S, n) == UNION {[1..k -> S] : k \in 0..n}

\* the lines an output text may hold after its count line
OutLines == SeqsUpTo(OutTokens, MaxOutParts)
\* lines[0] of either text: blank (the text is empty), one token, or two
CountLines == {<<>>} \cup {<<t>> : t \in CountTokens} \cup {<<"1", "2">>}

\* the lines an input text may hold after its count line, over the tokens
\* O (first token), C (second token) and T (the tokens after them)
InLinesOver(O, C, T) ==
    {<<>>} \cup {<<o>> : o \in O}
    \cup {<<o, c>> \o t : o \in O, c \in C, t \in SeqsUpTo(T, MaxTagTokens)}
InLines == InLinesOver({"L", "P", "X"}, {"0", "1", "2", "-1", "-3", "x"}, {"a", "b"})
\* a smaller universe, for the runs that start from the output text
InLinesSmall == InLinesOver({"L", "X"}, {"1", "-1"}, {"a"})

\* ----------------------------------------------------------- conversions
\* int(s) on the tokens of the universes; a token outside the domain raises
\* ValueError
IntLiteral ==
    ("0" :> 0) @@ ("1" :> 1) @@ ("01" :> 1) @@ ("2" :> 2) @@ ("3" :> 3)
    @@ ("-1" :> -1) @@ ("-3" :> -3)

IsInt(t) == t \in DOMAIN IntLiteral
PyInt(t) == IntLiteral[t]

\* int(lines[0].strip()): the whole line is one integer literal
CountLineOk(l) == Len(l) = 1 /\ IsInt(l[1])

Range(s) == {s[k] : k \in 1..Len(s)}

\* Optional[...] return values
None == [none |-> TRUE, val |-> <<>>]
Some(v) == [none |-> FALSE, val |-> v]

\* ------------------------------------------------------------- messages
ErrOutputFirstLine ==
    [msg |-> "ERROR: First line must be a valid number for frame count."]
ErrDupSameFrame(n, t) ==
    [msg |-> "ERROR: Duplicate painting ID used in the same frame.",
     line |-> n, text |-> t]
ErrDupAcross(n, id) ==
    [msg |-> "ERROR: Duplicate painting ID is used more than once.",
     line |-> n, id |-> id]
WarnInvalidParts(n) ==
    [msg |-> "WARNING: Line has invalid number of parts. Skipping.", line |-> n]
WarnInvalidLine(n) ==
    [msg |-> "WARNING: Skipping invalid line", line |-> n]
ErrFrameCount(d, found) ==
    [msg |-> "ERROR: The file declared d frames, but found n.",
     declared |-> d, found |-> found]

ErrInputFirstLine ==
    [msg |-> "ERROR: First line of input file must be a number."]
WarnInputInvalidLine(n) ==
    [msg |-> "WARNING: Skipping invalid line n in input file.", line |-> n]
WarnOrientation(o, n) ==
    [msg |-> "WARNING: Invalid orientation on line n. Skipping.",
     line |-> n, orientation |-> o]
WarnNotEnoughTags(n, expected, got) ==
    [msg |-> "WARNING: Not enough tags on line n.",
     line |-> n, expected |-> expected, got |-> got]
WarnInvalidTagCount(n) ==
    [msg |-> "WARNING: Invalid number of tags on line n. Skipping.", line |-> n]
WarnPaintingCount(expected, parsed) ==
    [msg |-> "WARNING: Expected e paintings, but parsed p.",
     expected |-> expected, parsed |-> parsed]

VARIABLES
    pc,               \* position in check_files and the parser it runs
    i,                \* loop index of the running parser
    line,             \* lines[i], the line last read (tokens)
    declared_frames,  \* read_and_verify_output
    frames,
    used_ids,
    line_number,
    warnings,         \* warnings list of the running parser
    out_ret,          \* (frames, output_warnings) in check_files
    num_paintings,    \* read_input_file
    paintings,
    in_ret,           \* (paintings, input_warnings) in check_files
    response,         \* the JSON body check_files answers with
    output_content    \* the lines of the output text when the whole text is
                      \* fixed at the start, None when each line is chosen
                      \* as the loop reaches it

vars == <<pc, i, line, declared_frames, frames, used_ids, line_number,
          warnings, out_ret, num_paintings, paintings, in_ret, response,
          output_content>>

outVars == <<declared_frames, frames, used_ids, line_number, out_ret>>
inVars == <<num_paintings, paintings, in_ret>>

NoRet == [frames |-> None, warnings |-> <<>>]
NoInRet == [paintings |-> None, warnings |-> <<>>]
NoResponse == [success |-> FALSE, error |-> "(no response yet)"]

Init ==
    /\ pc = "validate_output"
    /\ i = 0
    /\ line = <<>>
    /\ declared_frames = 0
    /\ frames = <<>>
    /\ used_ids = {}
    /\ line_number = 0
    /\ warnings = <<>>
    /\ out_ret = NoRet
    /\ num_paintings = 0
    /\ paintings = << >>
    /\ in_ret = NoInRet
    /\ response = NoResponse
    /\ output_content = None

\* ------------------------------------------- read_and_verify_output
\* the `for part in parts` loop from token k on: the ids added to used_ids
\* and how the loop ends ("ok", "dup" with the id, "bad" for ValueError)
\* (variant: the loop without the `in used_ids` test)
RECURSIVE ScanParts_NoUsedCheck(_, _, _)
ScanParts_NoUsedCheck(parts, k, used) ==
    IF k > Len(parts) THEN [end |-> "ok", used |-> used, id |-> 0]
    ELSE IF ~IsInt(parts[k]) THEN [end |-> "bad", used |-> used, id |-> 0]
    ELSE ScanParts_NoUsedCheck(parts, k + 1, used \cup {PyInt(parts[k])})

RECURSIVE ScanParts(_, _, _)
ScanParts(parts, k, used) ==
    IF k > Len(parts) THEN [end |-> "ok", used |-> used, id |-> 0]
    ELSE IF ~IsInt(parts[k]) THEN [end |-> "bad", used |-> used, id |-> 0]
    ELSE IF PyInt(parts[k]) \in used
         THEN [end |-> "dup", used |-> used, id |-> PyInt(parts[k])]
    ELSE ScanParts(parts, k + 1, used \cup {PyInt(parts[k])})

\* (variant: the two tokens compared after int())
SameFrameDuplicate_AsIntegers(parts) ==
    Len(parts) = 2 /\ IsInt(parts[1]) /\ IsInt(parts[2])
    /\ PyInt(parts[1]) = PyInt(parts[2])

\* line 47: a two-token line that repeats its token
SameFrameDuplicate(parts) == Len(parts) = 2 /\ parts[1] = parts[2]

\* (variant: only too few frames is a mismatch)
DeclaredMismatch_TooFewOnly(declared, found) == declared > found

\* line 66: the declared count against the frames found
DeclaredMismatch(declared, found) == declared # found

\* return None, [error]
OutputFail(err) ==
    /\ out_ret' = [frames |-> None, warnings |-> <<err>>]
    /\ pc' = "output_returned"

\* line 28: lines = content.strip().split('\n'); the lines that can stand
\* at index k of `lines`, and whether `lines` has an index k
OutputLinesAt(k) ==
    IF output_content.none
    THEN IF k = 0 THEN CountLines ELSE OutLines
    ELSE {output_content.val[k + 1]}
OutputHasLine(k) ==
    IF output_content.none THEN k < MaxOutLines ELSE k < Len(output_content.val)
\* strip() leaves no blank last line: the text can end before index k
OutputEndsAt(k) ==
    IF output_content.none THEN k = 1 \/ line # <<>> ELSE k = Len(output_content.val)

\* (variant: the two identifiers of a frame in the other order)
FrameOf_Swapped(parts) ==
    IF Len(parts) = 1 THEN <<PyInt(parts[1])>>
    ELSE <<PyInt(parts[2]), PyInt(parts[1])>>

\* lines 56-59: (int(parts[0]), None) or (int(parts[0]), int(parts[1]))
FrameOf(parts) ==
    IF Len(parts) = 1 THEN <<PyInt(parts[1])>>
    ELSE <<PyInt(parts[1]), PyInt(parts[2])>>

\* lines 29-36: the count line
OutputCountLine ==
    /\ pc = "validate_output"
    /\ \E l \in OutputLinesAt(0) :
        /\ line' = l
        /\ IF CountLineOk(l)
           THEN /\ declared_frames' = PyInt(l[1])
                /\ pc' = "output_loop"
                /\ i' = 1
                /\ UNCHANGED out_ret
           ELSE /\ OutputFail(ErrOutputFirstLine)
                /\ UNCHANGED <<declared_frames, i>>
    /\ UNCHANGED <<frames, used_ids, warnings, line_number, inVars, response,
                   output_content>>

\* lines 38-64: one iteration of the loop over lines[1:]
OutputLine ==
    /\ pc = "output_loop"
    /\ OutputHasLine(i)
    /\ \E l \in OutputLinesAt(i) :
        /\ line' = l
        /\ i' = i + 1
        /\ UNCHANGED <<declared_frames, inVars, response, output_content>>
        /\ IF l = <<>>
           THEN UNCHANGED <<frames, used_ids, line_number, warnings, out_ret, pc>>
           ELSE /\ line_number' = i + 1
                /\ IF SameFrameDuplicate(l)
                   THEN /\ OutputFail(ErrDupSameFrame(i + 1, l[1]))
                        /\ UNCHANGED <<frames, used_ids, warnings>>
                   ELSE LET r == ScanParts(l, 1, used_ids) IN
                        CASE r.end = "dup" ->
                               \* the ids added before the repeated one stay in
                               \* used_ids until the function returns
                               /\ OutputFail(ErrDupAcross(i + 1, r.id))
                               /\ used_ids' = r.used
                               /\ UNCHANGED <<frames, warnings>>
                          [] r.end = "bad" ->
                               /\ used_ids' = r.used
                               /\ warnings' = Append(warnings, WarnInvalidLine(i + 1))
                               /\ UNCHANGED <<frames, out_ret, pc>>
                          [] r.end = "ok" ->
                               /\ used_ids' = r.used
                               /\ IF Len(l) = 1
                                  THEN /\ frames' = Append(frames, FrameOf(l))
                                       /\ UNCHANGED warnings
                                  ELSE IF Len(l) = 2
                                  THEN /\ frames' = Append(frames, FrameOf(l))
                                       /\ UNCHANGED warnings
                                  ELSE /\ warnings' = Append(warnings, WarnInvalidParts(i + 1))
                                       /\ UNCHANGED frames
                               /\ UNCHANGED <<out_ret, pc>>

\* lines 66-69: the loop is over (strip() leaves no blank last line)
OutputEnd ==
    /\ pc = "output_loop"
    /\ OutputEndsAt(i)
    /\ IF DeclaredMismatch(declared_frames, Len(frames))
       THEN OutputFail(ErrFrameCount(declared_frames, Len(frames)))
       ELSE /\ out_ret' = [frames |-> Some(frames), warnings |-> warnings]
            /\ pc' = "output_returned"
    /\ UNCHANGED <<i, line, declared_frames, frames, used_ids, warnings,
                   line_number, inVars, response, output_content>>

\* ---------------------------------------------------- read_input_file
\* s[lo:hi] of Python for lo >= 0: a negative hi counts from the end
PySlice(s, lo, hi) ==
    LET h0 == IF hi < 0 THEN Len(s) + hi ELSE hi
        h == IF h0 > Len(s) THEN Len(s) ELSE h0
    IN  IF h <= lo THEN <<>> ELSE [k \in 1..(h - lo) |-> s[lo + k]]

\* return None, [error]
InputFail(err) ==
    /\ in_ret' = [paintings |-> None, warnings |-> <<err>>]
    /\ pc' = "input_returned"

\* lines 76-83: the count line
InputCountLine ==
    /\ pc = "read_input"
    /\ \E l \in CountLines :
        /\ line' = l
        /\ IF CountLineOk(l)
           THEN /\ num_paintings' = PyInt(l[1])
                /\ pc' = "input_loop"
                /\ i' = 1
                /\ UNCHANGED in_ret
           ELSE /\ InputFail(ErrInputFirstLine)
                /\ UNCHANGED <<num_paintings, i>>
    /\ UNCHANGED <<paintings, warnings, outVars, response, output_content>>

\* (variant: the identifier counts the paintings parsed so far)
painting_id_ByParsedCount(idx, parsed) == Cardinality(DOMAIN parsed)

\* line 107: painting_id = i - 1, for the line at index idx of `lines`
painting_id(idx, parsed) == idx - 1

\* lines 85-116: one iteration of the loop over lines[1 : num_paintings + 1],
\* on a line drawn from L
InputLine(L) ==
    /\ pc = "input_loop"
    /\ i < MaxInLines
    /\ i < num_paintings + 1
    /\ \E l \in L :
        /\ line' = l
        /\ i' = i + 1
        /\ IF l = <<>>
           THEN UNCHANGED <<paintings, warnings>>
           ELSE IF Len(l) < 2
           THEN /\ warnings' = Append(warnings, WarnInputInvalidLine(i + 1))
                /\ UNCHANGED paintings
           ELSE IF l[1] \notin {"L", "P"}
           THEN /\ warnings' = Append(warnings, WarnOrientation(l[1], i + 1))
                /\ UNCHANGED paintings
           ELSE IF ~IsInt(l[2])
           THEN /\ warnings' = Append(warnings, WarnInvalidTagCount(i + 1))
                /\ UNCHANGED paintings
           ELSE LET num_tags == PyInt(l[2]) IN
                IF Len(l) < 2 + num_tags
                THEN /\ warnings' = Append(warnings,
                            WarnNotEnoughTags(i + 1, num_tags, Len(l) - 2))
                     /\ UNCHANGED paintings
                ELSE /\ paintings' = (painting_id(i, paintings) :>
                            [id |-> painting_id(i, paintings), orientation |-> l[1],
                             tags |-> PySlice(l, 2, 2 + num_tags)]) @@ paintings
                     /\ UNCHANGED warnings
    /\ UNCHANGED <<pc, outVars, num_paintings, in_ret, response, output_content>>

\* lines 118-121: the loop is over, at the declared count or at the end of
\* the text (strip() leaves no blank last line)
InputEnd ==
    /\ pc = "input_loop"
    /\ (i >= num_paintings + 1 \/ i = 1 \/ line # <<>>)
    /\ LET n == Cardinality(DOMAIN paintings)
           w == IF n # num_paintings
                THEN Append(warnings, WarnPaintingCount(num_paintings, n))
                ELSE warnings
       IN  in_ret' = [paintings |-> Some(paintings), warnings |-> w]
    /\ pc' = "input_returned"
    /\ UNCHANGED <<i, line, paintings, warnings, outVars, num_paintings, response,
                   output_content>>

\* --------------------------------------------------------------- scoring
\* set(paintings[id]['tags'])
TagSet(p, id) == Range(p[id].tags)

\* (variant: a two-painting frame with one painting absent keeps the tags of
\* the other)
compute_frameglass_tags_PartialUnion(frame, p) ==
    IF Len(frame) = 1
    THEN IF frame[1] \notin DOMAIN p THEN {} ELSE TagSet(p, frame[1])
    ELSE (IF frame[1] \in DOMAIN p THEN TagSet(p, frame[1]) ELSE {})
         \cup (IF frame[2] \in DOMAIN p THEN TagSet(p, frame[2]) ELSE {})

compute_frameglass_tags(frame, p) ==
    IF Len(frame) = 1
    THEN IF frame[1] \notin DOMAIN p THEN {} ELSE TagSet(p, frame[1])
    ELSE IF frame[1] \notin DOMAIN p \/ frame[2] \notin DOMAIN p
         THEN {}
         ELSE TagSet(p, frame[1]) \cup TagSet(p, frame[2])

Min3(a, b, c) ==
    IF a <= b /\ a <= c THEN a ELSE IF b <= c THEN b ELSE c

\* (variant: the tags only in tags2 are not counted)
compute_transition_score_NoOnlyInTags2(tags1, tags2) ==
    Min3(Cardinality(tags1 \cap tags2),
         Cardinality(tags1 \ tags2),
         Cardinality(tags1 \ tags2))

compute_transition_score(tags1, tags2) ==
    Min3(Cardinality(tags1 \cap tags2),
         Cardinality(tags1 \ tags2),
         Cardinality(tags2 \ tags1))

\* (variant: the loop stops one pair early)
RECURSIVE ScoreLoop_SkipsLast(_, _, _)
ScoreLoop_SkipsLast(frameglass_tags, k, total_score) ==
    IF k > Len(frameglass_tags) - 2 THEN total_score
    ELSE ScoreLoop_SkipsLast(frameglass_tags, k + 1,
            total_score
            + compute_transition_score(frameglass_tags[k], frameglass_tags[k + 1]))

\* the accumulation loop from 1-based index k on
RECURSIVE ScoreLoop(_, _, _)
ScoreLoop(frameglass_tags, k, total_score) ==
    IF k > Len(frameglass_tags) - 1 THEN total_score
    ELSE ScoreLoop(frameglass_tags, k + 1,
            total_score
            + compute_transition_score(frameglass_tags[k], frameglass_tags[k + 1]))

compute_global_score(f, p) ==
    IF Len(f) < 2 THEN 0
    ELSE LET frameglass_tags ==
                [k \in 1..Len(f) |-> compute_frameglass_tags(f[k], p)]
         IN  ScoreLoop(frameglass_tags, 1, 0)

\* ----------------------------------------------------------- check_files
\* (variant: the failed output parse is not noticed)
OutputFailed_Never(ret) == FALSE

\* line 232: frames is None
OutputFailed(ret) == ret.frames.none

\* (variant: the output warnings are left out)
AllWarnings_InputOnly(output_warnings, input_warnings) == input_warnings

\* line 263: all_warnings = output_warnings + input_warnings
AllWarnings(output_warnings, input_warnings) == output_warnings \o input_warnings

\* lines 231-239: read_and_verify_output has returned
CheckOutput ==
    /\ pc = "output_returned"
    /\ IF OutputFailed(out_ret)
       THEN /\ response' = [success |-> FALSE,
                            error |-> "Output file validation failed.",
                            warnings |-> out_ret.warnings]
            /\ pc' = "done"
       ELSE /\ pc' = "read_input"
            /\ UNCHANGED response
    /\ i' = 0
    /\ line' = <<>>
    /\ line_number' = 0
    /\ declared_frames' = 0
    /\ frames' = <<>>
    /\ used_ids' = {}
    /\ warnings' = <<>>
    /\ UNCHANGED <<out_ret, inVars, output_content>>

\* lines 242-273: read_input_file has returned
CheckInput ==
    /\ pc = "input_returned"
    /\ IF in_ret.paintings.none
       THEN response' = [success |-> FALSE,
                         error |-> "Input file validation failed.",
                         warnings |-> in_ret.warnings]
       ELSE response' = [success |-> TRUE,
                         num_frames |-> Len(out_ret.frames.val),
                         num_paintings |-> Cardinality(DOMAIN in_ret.paintings.val),
                         global_score |-> compute_global_score(out_ret.frames.val,
                                                               in_ret.paintings.val),
                         warnings |-> AllWarnings(out_ret.warnings, in_ret.warnings)]
    /\ pc' = "done"
    /\ i' = 0
    /\ line' = <<>>
    /\ num_paintings' = 0
    /\ paintings' = << >>
    /\ warnings' = <<>>
    /\ UNCHANGED <<outVars, in_ret, output_content>>

\* ------------------------------------------------------- specifications
\* one request, from the output text on
Next ==
    \/ OutputCountLine
    \/ OutputLine
    \/ OutputEnd
    \/ CheckOutput
    \/ InputCountLine
    \/ InputLine(InLinesSmall)
    \/ InputEnd
    \/ CheckInput

Spec == Init /\ [][Next]_vars

\* one request, from the point where the output text has been validated
ValidatedOutputs == {<<>>, << <<1>>, <<0>> >>}

InitIn ==
    /\ pc = "read_input"
    /\ i = 0
    /\ line = <<>>
    /\ declared_frames = 0
    /\ frames = <<>>
    /\ used_ids = {}
    /\ line_number = 0
    /\ warnings = <<>>
    /\ out_ret \in {[frames |-> Some(f), warnings |-> <<>>] : f \in ValidatedOutputs}
    /\ num_paintings = 0
    /\ paintings = << >>
    /\ in_ret = NoInRet
    /\ response = NoResponse
    /\ output_content = None

NextIn ==
    \/ InputCountLine
    \/ InputLine(InLines)
    \/ InputEnd
    \/ CheckInput

SpecIn == InitIn /\ [][NextIn]_vars

\* one request, from the point where both texts have been parsed: the
\* arrangements read_and_verify_output can return over ScoreIds, and the
\* mappings read_input_file can return with tag lists of ScoreTagLists
ScoreIds == {0, 1, 2, 3}
ScorePaintingIds == {0, 1, 2}
ScoreTagLists ==
    {<<>>, <<"a">>, <<"a", "b">>, <<"b", "c">>, <<"c", "a", "c">>, <<"a", "b", "c", "d">>}

ScoreFrames == {<<a>> : a \in ScoreIds}
               \cup {f \in ScoreIds \X ScoreIds : f[1] # f[2]}

\* no identifier in two slots
Exclusive(f) ==
    \A j, k \in 1..Len(f) : \A m \in 1..Len(f[j]) : \A n \in 1..Len(f[k]) :
        f[j][m] = f[k][n] => (j = k /\ m = n)

ScoreArrangements == {f \in SeqsUpTo(ScoreFrames, MaxScoreFrames) : Exclusive(f)}

ScoreMappings ==
    UNION {{[k \in D |-> [id |-> k, orientation |-> "L", tags |-> t[k]]]
            : t \in [D -> ScoreTagLists]} : D \in SUBSET ScorePaintingIds}

InitScore ==
    /\ pc = "input_returned"
    /\ i = 0
    /\ line = <<>>
    /\ declared_frames = 0
    /\ frames = <<>>
    /\ used_ids = {}
    /\ line_number = 0
    /\ warnings = <<>>
    /\ out_ret \in {[frames |-> Some(f), warnings |-> <<>>] : f \in ScoreArrangements}
    /\ num_paintings = 0
    /\ paintings = << >>
    /\ in_ret \in {[paintings |-> Some(p), warnings |-> <<>>] : p \in ScoreMappings}
    /\ response = NoResponse
    /\ output_content = None

NextScore == CheckInput

SpecScore == InitScore /\ [][NextScore]_vars

\* read_and_verify_output alone, on an output text fixed at the start: a
\* count line, then lines of one or two identifiers, blank lines, and lines
\* the parser skips ("01" is identifier 1 again)
RoundCountLines == {<<>>} \cup {<<t>> : t \in {"0", "1", "2", "3", "x"}}
RoundIdTokens == {"1", "2", "3"}
RoundLines ==
    {<<>>, <<"x">>, <<"01">>, <<"1", "2", "3">>}
    \cup {<<a>> : a \in RoundIdTokens}
    \cup {<<a, b>> : a \in RoundIdTokens, b \in RoundIdTokens}
\* content.strip().split('\n'): the last line is blank only when the text
\* is empty
RoundTexts ==
    { <<c>> \o d : c \in RoundCountLines \ {<<>>},
                   d \in {e \in SeqsUpTo(RoundLines, MaxRoundLines - 1) :
                              e = <<>> \/ e[Len(e)] # <<>>} }
    \cup { << <<>> >> }

InitRound ==
    /\ pc = "validate_output"
    /\ i = 0
    /\ line = <<>>
    /\ declared_frames = 0
    /\ frames = <<>>
    /\ used_ids = {}
    /\ line_number = 0
    /\ warnings = <<>>
    /\ out_ret = NoRet
    /\ num_paintings = 0
    /\ paintings = << >>
    /\ in_ret = NoInRet
    /\ response = NoResponse
    /\ output_content \in {Some(t) : t \in RoundTexts}

NextRound ==
    \/ OutputCountLine
    \/ OutputLine
    \/ OutputEnd

SpecRound == InitRound /\ [][NextRound]_vars

\* ================================================================ claims
\* the identifiers held by the frames of f
FrameIds(f) == UNION {Range(f[k]) : k \in 1..Len(f)}

OutputPhase == {"validate_output", "output_loop", "output_returned"}
InputPhase == {"read_input", "input_loop", "input_returned"}

\* the first message of a failed parse is one of these
IsDupAcross(ret) ==
    ret.frames.none /\ ret.warnings[1].msg = ErrDupAcross(0, 0).msg
IsDupSame(ret) ==
    ret.frames.none /\ ret.warnings[1].msg = ErrDupSameFrame(0, "").msg
IsFormatError(ret) ==
    ret.frames.none /\ ret.warnings[1] = ErrOutputFirstLine

\* C1: whenever read_and_verify_output succeeds, no identifier occurs in two
\* slots of the returned frames (neither in two frames nor twice in one
\* frame), identifiers compared as integers.
C1_GlobalExclusivity ==
    ~out_ret.frames.none => Exclusive(out_ret.frames.val)

\* a successful parse of two frames, one of them holding two paintings
C1_Witness ==
    /\ pc = "output_returned"
    /\ ~out_ret.frames.none
    /\ Len(out_ret.frames.val) = 2
    /\ \E k \in 1..2 : Len(out_ret.frames.val[k]) = 2

\* C2 (as claimed): a line of pairwise distinct integer identifiers fails
\* with the used-more-than-once error if and only if one of its identifiers
\* is held by a frame accepted from an earlier line; identifiers seen only
\* on skipped lines do not count.
C2_DuplicateOnlyOfAcceptedLines ==
    [][(/\ pc = "output_loop"
        /\ i' = i + 1
        /\ line' # <<>>
        /\ \A k \in 1..Len(line') : IsInt(line'[k])
        /\ \A j, k \in 1..Len(line') :
              PyInt(line'[j]) = PyInt(line'[k]) => j = k)
       => ((pc' = "output_returned" /\ IsDupAcross(out_ret'))
           <=> (\E k \in 1..Len(line') : PyInt(line'[k]) \in FrameIds(frames)))]_vars

\* C3: a line after the first that is two textually identical tokens ends
\* the parse at once: no frames, and the only message is the
\* duplicate-in-same-frame error with that line's number and the token text,
\* whatever the tokens are and whatever warnings were collected before.
C3_SameFrameDuplicateIsFatal ==
    (pc \in {"output_loop", "output_returned"} /\ i >= 2
     /\ Len(line) = 2 /\ line[1] = line[2])
    => (/\ pc = "output_returned"
        /\ out_ret = [frames |-> None,
                      warnings |-> <<ErrDupSameFrame(i, line[1])>>])

\* line 3 repeats a non-integer token after line 2 was skipped with a warning
C3_Witness ==
    /\ pc = "output_returned"
    /\ i = 3
    /\ line = <<"x", "x">>
    /\ warnings # <<>>
    /\ out_ret.warnings = <<ErrDupSameFrame(3, "x")>>

\* C4: when the lines were processed without a line-level hard error, the
\* parse succeeds exactly if the frames found are as many as declared,
\* returning them; otherwise it returns no frames and the count-mismatch
\* error with the declared and the found number.  Every successful result
\* has as many frames as declared.
C4_OutputCountMismatchIsFatal ==
    pc = "output_returned" =>
        /\ ~out_ret.frames.none =>
              /\ Len(out_ret.frames.val) = declared_frames
              /\ out_ret.frames.val = frames
        /\ ~(IsFormatError(out_ret) \/ IsDupSame(out_ret) \/ IsDupAcross(out_ret)) =>
              /\ out_ret.frames.none <=> Len(frames) # declared_frames
              /\ out_ret.frames.none =>
                    out_ret.warnings = <<ErrFrameCount(declared_frames, Len(frames))>>

\* two frames declared, one valid line found
C4_Witness ==
    /\ pc = "output_returned"
    /\ Len(frames) = 1
    /\ out_ret = [frames |-> None, warnings |-> <<ErrFrameCount(2, 1)>>]

\* the count line the claims ask for: one non-negative integer
NonNegativeCountLine(l) == Len(l) = 1 /\ IsInt(l[1]) /\ PyInt(l[1]) >= 0

\* C5 (as claimed): either parser goes past its count line only if that line
\* is a non-negative integer; otherwise it returns nothing and the
\* count-line format error.
C5_CountLineMustBeNonNegative ==
    /\ (pc = "output_loop" /\ i = 1) => NonNegativeCountLine(line)
    /\ (pc = "output_returned" /\ i <= 1 /\ ~NonNegativeCountLine(line)) =>
          out_ret = [frames |-> None, warnings |-> <<ErrOutputFirstLine>>]
    /\ (pc = "input_loop" /\ i = 1) => NonNegativeCountLine(line)
    /\ (pc = "input_returned" /\ i <= 1 /\ ~NonNegativeCountLine(line)) =>
          in_ret = [paintings |-> None, warnings |-> <<ErrInputFirstLine>>]

\* C6 (as claimed): a line with a token that is no integer (that is not two
\* identical tokens, and whose integer tokens are pairwise distinct) is
\* skipped with exactly one warning, adds no frame and never ends the parse,
\* wherever the bad token stands and whether or not its other tokens repeat
\* identifiers used on earlier lines.
C6_NonIntegerLineIsSkipped ==
    [][(/\ pc = "output_loop"
        /\ i' = i + 1
        /\ ~(Len(line') = 2 /\ line'[1] = line'[2])
        /\ \E k \in 1..Len(line') : ~IsInt(line'[k])
        /\ \A j, k \in 1..Len(line') :
              (IsInt(line'[j]) /\ IsInt(line'[k]) /\ PyInt(line'[j]) = PyInt(line'[k]))
              => j = k)
       => (/\ pc' = "output_loop"
           /\ warnings' = Append(warnings, WarnInvalidLine(i + 1))
           /\ frames' = frames)]_vars

\* a well-formed painting line: "L" or "P", a non-negative tag count, and at
\* least that many tags
WellFormedInputLine(l) ==
    /\ Len(l) >= 2
    /\ l[1] \in {"L", "P"}
    /\ IsInt(l[2])
    /\ PyInt(l[2]) >= 0
    /\ Len(l) - 2 >= PyInt(l[2])

\* C7 (as claimed): with a valid count line, read_input_file adds a painting
\* for a declared data line exactly if the line is well-formed, and returns
\* the mapping (never None) with one mismatch warning appended last exactly
\* if the mapping's size differs from the declared count.
C7_InputMismatchIsNotFatal ==
    [][(pc = "input_loop" /\ num_paintings >= 0)
       => /\ (i' = i + 1) =>
                DOMAIN paintings' =
                    IF WellFormedInputLine(line')
                    THEN DOMAIN paintings \cup {i - 1}
                    ELSE DOMAIN paintings
          /\ (pc' = "input_returned") =>
                /\ in_ret'.paintings = Some(paintings)
                /\ in_ret'.warnings =
                      IF Cardinality(DOMAIN paintings) # num_paintings
                      THEN Append(warnings,
                              WarnPaintingCount(num_paintings,
                                                Cardinality(DOMAIN paintings)))
                      ELSE warnings]_vars

\* C8: the output text is validated first.  The input parser runs only after
\* a successful output parse; a failed output parse is answered as an
\* output-file failure without the input text being parsed; the score is
\* computed only after both parses succeeded.
C8_OutputValidatedFirst ==
    /\ pc \in OutputPhase =>
          in_ret = NoInRet /\ paintings = << >> /\ num_paintings = 0
    /\ pc \in InputPhase => ~out_ret.frames.none
    /\ pc # "done" => response = NoResponse
    /\ (pc = "done" /\ out_ret.frames.none) =>
          /\ response = [success |-> FALSE,
                         error |-> "Output file validation failed.",
                         warnings |-> out_ret.warnings]
          /\ in_ret = NoInRet
    /\ (pc = "done" /\ ~out_ret.frames.none /\ in_ret.paintings.none) =>
          response = [success |-> FALSE,
                      error |-> "Input file validation failed.",
                      warnings |-> in_ret.warnings]
    /\ (pc = "done" /\ response.success) =>
          ~out_ret.frames.none /\ ~in_ret.paintings.none

\* the request was answered as an output-file failure
C8_Witness ==
    /\ pc = "done"
    /\ out_ret.frames.none
    /\ response.error = "Output file validation failed."
    /\ in_ret = NoInRet

\* C9 (as claimed): every warning recorded while parsing the output text is
\* in the warnings list of the answer, on success and on failure.
C9_WarningsAlwaysSurfaced ==
    [][/\ (pc = "output_returned" /\ pc' = "done") =>
              Range(warnings) \subseteq Range(response'.warnings)
       /\ (pc = "input_returned" /\ pc' = "done" /\ response'.success) =>
              Range(out_ret.warnings) \subseteq Range(response'.warnings)]_vars

\* C9 (amended): a successful output parse returns every warning it
\* recorded, and a successful request answers with them, in order, before
\* the input warnings; a failed parse returns only its one error message,
\* and a failed request answers with only that message.
C9_WarningsSurfacedOnSuccess ==
    /\ (pc = "output_returned" /\ ~out_ret.frames.none) => out_ret.warnings = warnings
    /\ (pc = "output_returned" /\ out_ret.frames.none) => Len(out_ret.warnings) = 1
    /\ (pc = "done" /\ response.success) =>
          /\ Len(response.warnings) = Len(out_ret.warnings) + Len(in_ret.warnings)
          /\ \A k \in 1..Len(out_ret.warnings) :
                response.warnings[k] = out_ret.warnings[k]
    /\ (pc = "done" /\ ~response.success) => Len(response.warnings) = 1

\* a successful request with a warning from each text
C9_Witness ==
    /\ pc = "done"
    /\ response.success
    /\ out_ret.warnings # <<>>
    /\ in_ret.warnings # <<>>

\* the least of the three counts of a transition
TransitionMin(A, B) ==
    LET S == {Cardinality(A \cap B), Cardinality(A \ B), Cardinality(B \ A)}
    IN  CHOOSE m \in S : \A x \in S : m <= x

\* the sum of TransitionMin over the pairs (T[1], T[2]) .. (T[n], T[n+1])
RECURSIVE SumOfTransitions(_, _)
SumOfTransitions(T, n) ==
    IF n < 1 THEN 0
    ELSE SumOfTransitions(T, n - 1) + TransitionMin(T[n], T[n + 1])

\* C10: the global score is 0 for fewer than two frames and otherwise the
\* sum over consecutive frames of min(|Ti & Ti+1|, |Ti - Ti+1|, |Ti+1 - Ti|),
\* Ti the resolved tag set of frame i; it is a non-negative integer.
C10_GlobalScoreIsSumOfTransitions ==
    (pc = "done" /\ response.success) =>
        LET f == out_ret.frames.val
            T == [k \in 1..Len(f) |->
                    compute_frameglass_tags(f[k], in_ret.paintings.val)]
        IN  /\ response.global_score \in Nat
            /\ response.global_score =
                  IF Len(f) < 2 THEN 0 ELSE SumOfTransitions(T, Len(f) - 1)

\* three frames whose two transitions both score
C10_Witness ==
    /\ pc = "done"
    /\ response.success
    /\ Len(out_ret.frames.val) = 3
    /\ response.global_score = 2

\* the smaller of two numbers
Smaller(a, b) == IF a <= b THEN a ELSE b

\* the resolved tag sets of the frames of the request, once it is answered
ResolvedTags ==
    [k \in 1..Len(out_ret.frames.val) |->
        compute_frameglass_tags(out_ret.frames.val[k], in_ret.paintings.val)]

\* C11: the transition score is symmetric and bounded: for the tag sets A, B
\* of any two frames, score(A, B) = score(B, A) and
\* 0 <= score(A, B) <= min(|A|, |B|), so it is 0 when either set is empty;
\* the score of a two-frame arrangement is the score of its one transition.
C11_TransitionScoreSymmetricAndBounded ==
    (pc = "done" /\ response.success) =>
        /\ \A j, k \in 1..Len(ResolvedTags) :
              LET A == ResolvedTags[j]
                  B == ResolvedTags[k]
                  sc == compute_transition_score(A, B)
              IN  /\ sc = compute_transition_score(B, A)
                  /\ sc \in 0..Smaller(Cardinality(A), Cardinality(B))
                  /\ (A = {} \/ B = {}) => sc = 0
        /\ Len(ResolvedTags) = 2 =>
              /\ response.global_score =
                    compute_transition_score(ResolvedTags[2], ResolvedTags[1])
              /\ response.global_score <=
                    Smaller(Cardinality(ResolvedTags[1]), Cardinality(ResolvedTags[2]))

\* two frames of different tag sets whose transition scores, and a third
\* frame with no tags
C11_Witness ==
    /\ pc = "done"
    /\ response.success
    /\ Len(out_ret.frames.val) = 3
    /\ ResolvedTags[1] # ResolvedTags[2]
    /\ compute_transition_score(ResolvedTags[1], ResolvedTags[2]) = 1
    /\ ResolvedTags[3] = {}

\* the tags a frame stands for: all tags of its paintings if every one of
\* its identifiers is in the mapping, none otherwise
ExpectedTags(frame, p) ==
    IF Range(frame) \subseteq DOMAIN p
    THEN UNION {Range(p[id].tags) : id \in Range(frame)}
    ELSE {}

\* C12: when check_files scores the arrangement, every frame resolves to the
\* tags of its one painting or the union of the tags of its two paintings,
\* and to the empty set as soon as one of its identifiers is absent from the
\* mapping (never a partial union); the mapping is left unchanged.
C12_FrameTagsResolved ==
    [][(pc = "input_returned" /\ ~in_ret.paintings.none)
       => /\ in_ret' = in_ret
          /\ response'.success
          /\ \A k \in 1..Len(out_ret.frames.val) :
                compute_frameglass_tags(out_ret.frames.val[k], in_ret'.paintings.val)
                = ExpectedTags(out_ret.frames.val[k], in_ret.paintings.val)]_vars

\* an answered request with a two-painting frame of which one painting, with
\* tags, is in the mapping and the other is not
C12_Witness ==
    /\ pc = "done"
    /\ response.success
    /\ \E k \in 1..Len(out_ret.frames.val) :
          LET f == out_ret.frames.val[k]
              p == in_ret.paintings.val
          IN  /\ Len(f) = 2
              /\ f[1] \in DOMAIN p
              /\ p[f[1]].tags # <<>>
              /\ f[2] \notin DOMAIN p

TokenPositions(t) ==
    {p \in (2..Len(t)) \X (1..2) : p[2] <= Len(t[p[1]])}

\* a line of one or two integer tokens
WellFormedOutputLine(l) ==
    Len(l) \in {1, 2} /\ \A j \in 1..Len(l) : IsInt(l[j])

\* the count line declares N, the lines after it are blank or well-formed,
\* exactly N of them are not blank, and no identifier occurs twice
WellFormedArrangement(t) ==
    /\ CountLineOk(t[1])
    /\ \A k \in 2..Len(t) : t[k] = <<>> \/ WellFormedOutputLine(t[k])
    /\ Cardinality({k \in 2..Len(t) : t[k] # <<>>}) = PyInt(t[1][1])
    /\ \A p, q \in TokenPositions(t) :
          p # q => PyInt(t[p[1]][p[2]]) # PyInt(t[q[1]][q[2]])

\* the frames written in t from line k on, in line order
RECURSIVE WrittenFrames(_, _)
WrittenFrames(t, k) ==
    IF k > Len(t) THEN <<>>
    ELSE IF t[k] = <<>> THEN WrittenFrames(t, k + 1)
    ELSE IF Len(t[k]) = 1
         THEN << <<PyInt(t[k][1])>> >> \o WrittenFrames(t, k + 1)
    ELSE << <<PyInt(t[k][1]), PyInt(t[k][2])>> >> \o WrittenFrames(t, k + 1)

\* C14: round trip of the arrangement: an output text whose count line
\* declares N and which holds exactly N well-formed lines, with identifiers
\* pairwise distinct across the file, is read with success and no warning
\* into exactly N frames, frame j being (id) for a one-token line and
\* (id1, id2) for a two-token line, in line order; blank lines between the
\* frames change nothing.
C14_ArrangementRoundTrip ==
    (/\ pc = "output_returned"
     /\ ~output_content.none
     /\ WellFormedArrangement(output_content.val)) =>
        /\ out_ret = [frames |-> Some(WrittenFrames(output_content.val, 2)),
                      warnings |-> <<>>]
        /\ Len(out_ret.frames.val) = PyInt(output_content.val[1][1])

\* "2", a two-painting frame, a blank line, a one-painting frame
C14_Witness ==
    /\ pc = "output_returned"
    /\ ~output_content.none
    /\ WellFormedArrangement(output_content.val)
    /\ Len(output_content.val) = 4
    /\ Len(output_content.val[2]) = 2
    /\ output_content.val[3] = <<>>
    /\ ~out_ret.frames.none
    /\ Len(out_ret.frames.val) = 2

\* C15: each step of the loop of read_input_file that reads a line l: if the
\* step adds a painting, the second token of l is a non-negative integer
\* tagCount and the painting's tags are exactly the first tagCount tokens
\* after it; if the second token of l is not a non-negative integer, or
\* fewer than tagCount tokens follow it, the step adds no painting and
\* appends one warning.
C15_TagCountGovernsTags ==
    [][(pc = "input_loop" /\ i' = i + 1) =>
          /\ ((i - 1) \in DOMAIN paintings') =>
                /\ Len(line') >= 2
                /\ IsInt(line'[2])
                /\ PyInt(line'[2]) >= 0
                /\ Len(paintings'[i - 1].tags) = PyInt(line'[2])
                /\ paintings'[i - 1].tags = SubSeq(line', 3, 2 + PyInt(line'[2]))
          /\ (/\ Len(line') >= 2
              /\ \/ ~IsInt(line'[2])
                 \/ PyInt(line'[2]) < 0
                 \/ Len(line') - 2 < PyInt(line'[2])) =>
                /\ paintings' = paintings
                /\ Len(warnings') = Len(warnings) + 1
      ]_vars
====
